---------------------------- MODULE Spec2Model ----------------------------
(***************************************************************************)
(* The orbgen payload wizard as a state machine.                           *)
(*                                                                         *)
(* The repository holds two variants of the UI model: internal/ui_model.go *)
(* (every sub-form is a group of text inputs, confirm runs                 *)
(* processFeeAction / processCCTPForwarding) and unnamed/part_001 (the Fee *)
(* sub-form is a huh form that receives every message while the screen is  *)
(* feeActionInput).  The variable uiModel says which of the two is built;  *)
(* actions.go and forwarding.go are shared by both.                        *)
(*                                                                         *)
(* Text is a sequence of one-character strings, bytes are 0..255, a nil    *)
(* pointer is the empty sequence and a pointer to x is <<x>>.              *)
(***************************************************************************)
EXTENDS Integers, Sequences, FiniteSets, TLC

VARIABLES
    uiModel,          \* which Model/Update is compiled: "ui_model.go" | "part_001"
    state,            \* Model.state
    list,             \* Model.list: [items, index]
    actionInputs,     \* Model.actionInputs
    forwardingInputs, \* Model.forwardingInputs
    focusIndex,       \* package-level var focusIndex
    feeActionForm,    \* Model.feeActionForm (part_001 only)
    actions,          \* Model.actions
    forwarding,       \* Model.forwarding
    err,              \* Model.err
    payload,          \* Model.payload
    program,          \* the tea.Program: "running" | "quit" | "panic" | "exited"
    stdout,           \* what main has printed
    typed,            \* rune messages taken by the sub-form on screen (0 on any other screen)
    call              \* the function of the codec or of validation run on its own: Nil, or
                      \* its name, argument and result

vars == <<uiModel, state, list, actionInputs, forwardingInputs, focusIndex,
          feeActionForm, actions, forwarding, err, payload, program, stdout, typed, call>>

-----------------------------------------------------------------------------
(* Bounds of the model *)

\* rune messages a sub-form takes per visit
MaxTyped == 2

\* actions a session collects before it must move on
MaxActions == 2

-----------------------------------------------------------------------------
(* Values *)

Nil == <<>>

Ptr(x) == <<x>>

NoError == "nil"

EmptyString == <<>>

Min(a, b) == IF a < b THEN a ELSE b

Take(s, n) == SubSeq(s, 1, Min(Len(s), n))

Drop(s, n) == SubSeq(s, n + 1, Len(s))

IsPrefix(s, t) == Len(s) <= Len(t) /\ SubSeq(t, 1, Len(s)) = s

Zeros(n) == [i \in 1..n |-> 0]

Repeat(c, n) == [i \in 1..n |-> c]

-----------------------------------------------------------------------------
(* strings.TrimSpace, strconv.ParseUint, strconv.Atoi *)

RECURSIVE TrimLeft(_)
TrimLeft(s) == IF s # <<>> /\ Head(s) = " " THEN TrimLeft(Tail(s)) ELSE s

RECURSIVE TrimRight(_)
TrimRight(s) ==
    IF s # <<>> /\ s[Len(s)] = " " THEN TrimRight(SubSeq(s, 1, Len(s) - 1)) ELSE s

TrimSpace(s) == TrimRight(TrimLeft(s))

DigitChars == <<"0", "1", "2", "3", "4", "5", "6", "7", "8", "9">>

IsDigit(c) == \E i \in 1..10 : DigitChars[i] = c

DigitVal(c) == (CHOOSE i \in 1..10 : DigitChars[i] = c) - 1

RECURSIVE StripZeros(_)
StripZeros(s) == IF Len(s) > 1 /\ Head(s) = "0" THEN StripZeros(Tail(s)) ELSE s

RECURSIVE Num(_)
Num(s) == IF s = <<>> THEN 0 ELSE 10 * Num(SubSeq(s, 1, Len(s) - 1)) + DigitVal(s[Len(s)])

RECURSIVE LexLE(_, _)
LexLE(s, t) ==
    IF s = <<>> THEN TRUE
    ELSE IF DigitVal(Head(s)) # DigitVal(Head(t)) THEN DigitVal(Head(s)) < DigitVal(Head(t))
    ELSE LexLE(Tail(s), Tail(t))

MaxUint32Digits == <<"4", "2", "9", "4", "9", "6", "7", "2", "9", "5">>

\* strconv.ParseUint(s, 10, 32): no sign, digits only, at most 2^32 - 1.
ParseUint32(s) ==
    IF s = <<>> \/ \E i \in 1..Len(s) : ~IsDigit(s[i])
    THEN [ok |-> FALSE, val |-> 0, err |-> "invalid syntax"]
    ELSE LET d == StripZeros(s) IN
         IF Len(d) > 10 \/ (Len(d) = 10 /\ ~LexLE(d, MaxUint32Digits))
         THEN [ok |-> FALSE, val |-> 0, err |-> "value out of range"]
         ELSE [ok |-> TRUE, val |-> Num(d), err |-> NoError]

\* strconv.Atoi(s): an optional sign, then digits (64-bit int).
Atoi(s) ==
    LET signed == s # <<>> /\ Head(s) \in {"+", "-"}
        body   == IF signed THEN Tail(s) ELSE s
    IN  IF body = <<>> \/ \E i \in 1..Len(body) : ~IsDigit(body[i])
        THEN [ok |-> FALSE, val |-> 0]
        ELSE IF Len(StripZeros(body)) > 9
        THEN [ok |-> TRUE, val |-> IF signed /\ Head(s) = "-" THEN -999999999 ELSE 999999999]
        ELSE [ok |-> TRUE,
              val |-> IF signed /\ Head(s) = "-" THEN -Num(StripZeros(body))
                      ELSE Num(StripZeros(body))]

-----------------------------------------------------------------------------
(* hexutil.Decode and base64.StdEncoding.DecodeString *)

HexChars == <<"0", "1", "2", "3", "4", "5", "6", "7", "8", "9",
              "a", "b", "c", "d", "e", "f">>

UpperHexChars == <<"0", "1", "2", "3", "4", "5", "6", "7", "8", "9",
                   "A", "B", "C", "D", "E", "F">>

IsHexChar(c) == \E i \in 1..16 : HexChars[i] = c \/ UpperHexChars[i] = c

HexVal(c) == (CHOOSE i \in 1..16 : HexChars[i] = c \/ UpperHexChars[i] = c) - 1

HasPrefix0x(s) == Len(s) >= 2 /\ s[1] = "0" /\ s[2] = "x"

\* hexutil.Decode: the 0x prefix, then an even number of hex digits.
HexutilDecode(s) ==
    IF s = <<>> THEN [ok |-> FALSE, bytes |-> <<>>]
    ELSE IF ~(Len(s) >= 2 /\ s[1] = "0" /\ s[2] \in {"x", "X"})
    THEN [ok |-> FALSE, bytes |-> <<>>]
    ELSE LET h == Drop(s, 2) IN
         IF Len(h) % 2 = 1 \/ \E i \in 1..Len(h) : ~IsHexChar(h[i])
         THEN [ok |-> FALSE, bytes |-> <<>>]
         ELSE [ok |-> TRUE,
               bytes |-> [i \in 1..(Len(h) \div 2) |->
                            16 * HexVal(h[2 * i - 1]) + HexVal(h[2 * i])]]

B64Chars ==
    <<"A", "B", "C", "D", "E", "F", "G", "H", "I", "J", "K", "L", "M",
      "N", "O", "P", "Q", "R", "S", "T", "U", "V", "W", "X", "Y", "Z",
      "a", "b", "c", "d", "e", "f", "g", "h", "i", "j", "k", "l", "m",
      "n", "o", "p", "q", "r", "s", "t", "u", "v", "w", "x", "y", "z",
      "0", "1", "2", "3", "4", "5", "6", "7", "8", "9", "+", "/">>

IsB64Char(c) == \E i \in 1..64 : B64Chars[i] = c

B64Val(c) == (CHOOSE i \in 1..64 : B64Chars[i] = c) - 1

\* the bytes of one quantum of four characters, the last may be padded
B64Quantum(q) ==
    LET v1 == B64Val(q[1])
        v2 == B64Val(q[2])
        b1 == 4 * v1 + (v2 \div 16)
    IN  IF q[3] = "=" THEN <<b1>>
        ELSE LET v3 == B64Val(q[3])
                 b2 == 16 * (v2 % 16) + (v3 \div 4)
             IN  IF q[4] = "=" THEN <<b1, b2>>
                 ELSE <<b1, b2, 64 * (v3 % 4) + B64Val(q[4])>>

B64QuantumOk(q, last) ==
    /\ IsB64Char(q[1])
    /\ IsB64Char(q[2])
    /\ \/ IsB64Char(q[3]) /\ IsB64Char(q[4])
       \/ last /\ IsB64Char(q[3]) /\ q[4] = "="
       \/ last /\ q[3] = "=" /\ q[4] = "="

RECURSIVE B64Bytes(_)
B64Bytes(s) == IF s = <<>> THEN <<>> ELSE B64Quantum(Take(s, 4)) \o B64Bytes(Drop(s, 4))

\* base64.StdEncoding.DecodeString: padded, standard alphabet, not strict.
Base64Decode(s) ==
    IF Len(s) % 4 # 0
       \/ \E k \in 1..(Len(s) \div 4) :
             ~B64QuantumOk(SubSeq(s, 4 * k - 3, 4 * k), k = Len(s) \div 4)
    THEN [ok |-> FALSE, bytes |-> <<>>]
    ELSE [ok |-> TRUE, bytes |-> B64Bytes(s)]

-----------------------------------------------------------------------------
(* forwarding.go: the byte codec *)

\* leftPadIfRequired with the pad behind the input
leftPadIfRequired_padRight(input) ==
    IF Len(input) > 32
    THEN [ok |-> FALSE, bytes |-> Nil, err |-> "input is too long; max 32 bytes"]
    ELSE IF Len(input) = 32
    THEN [ok |-> TRUE, bytes |-> input, err |-> NoError]
    ELSE [ok |-> TRUE, bytes |-> input \o Zeros(32 - Len(input)), err |-> NoError]

leftPadIfRequired(input) ==
    IF Len(input) > 32
    THEN [ok |-> FALSE, bytes |-> Nil, err |-> "input is too long; max 32 bytes"]
    ELSE IF Len(input) = 32
    THEN [ok |-> TRUE, bytes |-> input, err |-> NoError]
    ELSE [ok |-> TRUE, bytes |-> Zeros(32 - Len(input)) \o input, err |-> NoError]

decodeHexOrBase64To32Bytes(input) ==
    IF HasPrefix0x(input)
    THEN LET d == HexutilDecode(input) IN
         IF ~d.ok THEN [ok |-> FALSE, bytes |-> Nil, err |-> "failed to decode hex"]
         ELSE leftPadIfRequired(d.bytes)
    ELSE LET d == Base64Decode(input) IN
         IF ~d.ok THEN [ok |-> FALSE, bytes |-> Nil, err |-> "failed to decode base64"]
         ELSE leftPadIfRequired(d.bytes)

\* testutil.RandomBytes(32): any of these may come back
RandomBytes32 == {Repeat(170, 32), Repeat(85, 32)}

-----------------------------------------------------------------------------
(* The texts that stand for bytes: what hexutil.Decode and
   base64.StdEncoding.DecodeString take back to the bytes *)

\* the 0x-prefixed hexadecimal text of a byte sequence
HexOf(x) ==
    <<"0", "x">> \o [i \in 1..(2 * Len(x)) |->
                       IF i % 2 = 1 THEN HexChars[(x[(i + 1) \div 2] \div 16) + 1]
                       ELSE HexChars[(x[i \div 2] % 16) + 1]]

\* the padded standard base64 text of a byte sequence
RECURSIVE Base64Of(_)
Base64Of(x) ==
    IF x = <<>> THEN <<>>
    ELSE LET b1 == x[1]
             b2 == IF Len(x) >= 2 THEN x[2] ELSE 0
             b3 == IF Len(x) >= 3 THEN x[3] ELSE 0
             c1 == B64Chars[(b1 \div 4) + 1]
             c2 == B64Chars[(b1 % 4) * 16 + (b2 \div 16) + 1]
             c3 == B64Chars[(b2 % 16) * 4 + (b3 \div 64) + 1]
             c4 == B64Chars[(b3 % 64) + 1]
         IN  IF Len(x) = 1 THEN <<c1, c2, "=", "=">>
             ELSE IF Len(x) = 2 THEN <<c1, c2, c3, "=">>
             ELSE <<c1, c2, c3, c4>> \o Base64Of(Drop(x, 3))

-----------------------------------------------------------------------------
(* What the user can send *)

\* the rune messages of the model: a tea.KeyMsg of type KeyRunes carries one
\* or more runes, which the focused text input inserts at its end.  They are
\* a digit, the sentinel, the quit letter, the hex of the byte 1 after a
\* blank, the base64 of the byte 1 before a blank, and a bech32 address
Runes ==
    { <<"7">>, <<"r">>, <<"q">>,
      <<" ", "0", "x", "0", "1">>,
      <<"A", "Q", "=", "=", " ">>,
      <<"a", "d", "d", "r", "1">> }

\* keys.go: the navigation keys of a sub-form
Tab == "tab"

ShiftTab == "shift+tab"

Up == "up"

Down == "down"

NavKeys == {Tab, ShiftTab, Up, Down}

-----------------------------------------------------------------------------
(* bubbles: textinput.Model and list.Model, as far as the wizard uses them *)

textinputNew == [Value |-> <<>>, Focus |-> FALSE, CharLimit |-> 0]

WithCharLimit(in, n) == [in EXCEPT !.CharLimit = n]

Focus(in) == [in EXCEPT !.Focus = TRUE]

Blur(in) == [in EXCEPT !.Focus = FALSE]

\* textinput.Update on a rune message: only a focused input takes the runes,
\* and only as many as CharLimit leaves room for
textinputUpdate(in, runes) ==
    IF ~in.Focus THEN in
    ELSE IF in.CharLimit > 0
    THEN [in EXCEPT !.Value = Take(in.Value \o runes, in.CharLimit)]
    ELSE [in EXCEPT !.Value = in.Value \o runes]

listNew(items) == [items |-> items, index |-> 0]

SelectedItem(l) == l.items[l.index + 1]

\* list.Update: up and down move the cursor and stop at the ends
listUpdate(l, key) ==
    IF key = Up /\ l.index > 0 THEN [l EXCEPT !.index = l.index - 1]
    ELSE IF key = Down /\ l.index < Len(l.items) - 1 THEN [l EXCEPT !.index = l.index + 1]
    ELSE l

-----------------------------------------------------------------------------
(* The payload-schema library (github.com/noble-assets/orbiter) and the SDK *)

ACTION_FEE == "ACTION_FEE"

ACTION_SWAP == "ACTION_SWAP"

PROTOCOL_CCTP == "PROTOCOL_CCTP"

PROTOCOL_IBC == "PROTOCOL_IBC"

PROTOCOL_HYPERLANE == "PROTOCOL_HYPERLANE"

NoMoreActions == "No more actions"

\* sdk.AccAddressFromBech32: the addresses the SDK accepts
Bech32Addresses == { <<"a", "d", "d", "r", "1">> }

AccAddressFromBech32(s) == IF s \in Bech32Addresses THEN NoError ELSE "decoding bech32 failed"

BPSNormalizer == 10000

\* validateBPS rejecting the normalizer itself
validateBPS_belowNormalizer(bps) ==
    IF bps = 0 THEN "fee basis point cannot be zero"
    ELSE IF bps >= BPSNormalizer THEN "fee basis point cannot be higher than 10000"
    ELSE NoError

validateBPS(bps) ==
    IF bps = 0 THEN "fee basis point cannot be zero"
    ELSE IF bps > BPSNormalizer THEN "fee basis point cannot be higher than 10000"
    ELSE NoError

\* uint32(n), for the values the wizard converts (all below 2^31)
Uint32(n) == n

\* action.FeeAttributes.Validate: every FeeInfo has a valid recipient and
\* basis points in (0, 10000]
FeeAttributesValidate(attr) ==
    IF AccAddressFromBech32(attr.Recipient) # NoError THEN AccAddressFromBech32(attr.Recipient)
    ELSE validateBPS(attr.BasisPoints)

\* core.Action.SetAttributes packs the attributes; it fails on nil attributes only
SetAttributes(act, attr) == [act |-> [act EXCEPT !.Attributes = attr], err |-> NoError]

\* core.Action.Validate
ActionValidate(act) ==
    IF act.Id # ACTION_FEE THEN "invalid action id" ELSE FeeAttributesValidate(act.Attributes)

\* forwarding.NewCCTPForwarding: the library validates the attributes itself;
\* accepted is its verdict
NewCCTPForwarding(domain, mintRecipient, destCaller, passthroughPayload, accepted) ==
    IF ~accepted THEN [fwd |-> Nil, err |-> "invalid CCTP attributes"]
    ELSE [fwd |-> Ptr([ProtocolId |-> PROTOCOL_CCTP,
                       DestinationDomain |-> domain,
                       MintRecipient |-> mintRecipient,
                       DestinationCaller |-> destCaller,
                       PassthroughPayload |-> passthroughPayload]),
          err |-> NoError]

\* the payload string of an action list and a forwarding
Encode(fwd, acts) == <<[PreActions |-> acts, Forwarding |-> fwd[1]]>>

\* buildFinalPayload: hands the session's data to the encoder, which rejects
\* an action that is not valid
buildFinalPayload(fwd, acts) ==
    IF \E i \in 1..Len(acts) : ActionValidate(acts[i]) # NoError
    THEN [payload |-> EmptyString, err |-> "invalid payload"]
    ELSE [payload |-> Encode(fwd, acts), err |-> NoError]

-----------------------------------------------------------------------------
(* huh: the Fee form of part_001 *)

StateNormal == "StateNormal"

StateCompleted == "StateCompleted"

StateAborted == "StateAborted"

\* the validators initFeeActionForm gives the two inputs
feeFormValidate(field, value) ==
    IF field = 0 THEN AccAddressFromBech32(value)
    ELSE IF ~Atoi(value).ok THEN "invalid syntax"
    ELSE validateBPS(Atoi(value).val)

initFeeActionForm ==
    [State |-> StateNormal, focus |-> 0,
     values |-> <<EmptyString, EmptyString>>,
     errs |-> <<NoError, NoError>>]

\* huh.Form.Update on a rune message: the focused input takes the runes
formRunes(f, runes) == [f EXCEPT !.values[f.focus + 1] = @ \o runes]

\* huh.Form.Update on enter or tab: the focused input validates its value and
\* keeps the focus on an error; otherwise the next input is focused, and
\* after the last input the form is completed
formNext(f) ==
    LET e == feeFormValidate(f.focus, f.values[f.focus + 1]) IN
    IF e # NoError THEN [f EXCEPT !.errs[f.focus + 1] = e]
    ELSE IF f.focus = 0 THEN [f EXCEPT !.errs[1] = NoError, !.focus = 1]
    ELSE [f EXCEPT !.errs[2] = NoError, !.State = StateCompleted]

\* huh.Form.Update on shift+tab: validates like enter, then focuses the
\* previous input
formPrev(f) ==
    LET e == feeFormValidate(f.focus, f.values[f.focus + 1]) IN
    IF e # NoError THEN [f EXCEPT !.errs[f.focus + 1] = e]
    ELSE [f EXCEPT !.errs[f.focus + 1] = NoError, !.focus = IF f.focus > 0 THEN f.focus - 1 ELSE 0]

\* huh.Form.Update on ctrl+c: the form is aborted (its CancelCmd is nil
\* when the form is embedded in a program)
formQuit(f) == [f EXCEPT !.State = StateAborted]

\* huh.Form.GetString: the value of the input with that key
GetString(f, field) == f.values[field + 1]

\* huh.Form.GetInt: the result under that key if it is an int, else 0; the
\* result of a huh.Input is a string
GetInt(f, field) == 0

-----------------------------------------------------------------------------
(* The initial model *)

\* no function has been run on its own
NoCall == [fn |-> "none", arg |-> Nil, res |-> Nil, of |-> Nil]

actionSelection == "actionSelection"

feeActionInput == "feeActionInput"

forwardingSelection == "forwardingSelection"

cctpForwardingInput == "cctpForwardingInput"

ActionItems == <<ACTION_FEE, ACTION_SWAP, NoMoreActions>>

ForwardingItems == <<PROTOCOL_CCTP, PROTOCOL_IBC, PROTOCOL_HYPERLANE>>

InitialModel ==
    /\ state = actionSelection
    /\ list = listNew(ActionItems)
    /\ actions = <<>>
    /\ actionInputs = <<>>
    /\ forwardingInputs = <<>>
    /\ forwarding = Nil
    /\ err = NoError
    /\ payload = EmptyString
    /\ feeActionForm = initFeeActionForm

Init ==
    /\ uiModel \in {"ui_model.go", "part_001"}
    /\ InitialModel
    /\ focusIndex = 0
    /\ program = "running"
    /\ stdout = <<>>
    /\ typed = 0
    /\ call = NoCall

-----------------------------------------------------------------------------
(* actions.go *)

\* initFeeActionInput keeping the inputs of an earlier visit
initFeeActionInput_keepDraft ==
    /\ actionInputs' = IF actionInputs = <<>>
                       THEN <<Focus(WithCharLimit(textinputNew, 100)),
                              WithCharLimit(textinputNew, 5)>>
                       ELSE <<Focus(actionInputs[1]), Blur(actionInputs[2])>>
    /\ state' = feeActionInput
    /\ focusIndex' = 0
    /\ typed' = 0
    /\ UNCHANGED <<call, uiModel, list, forwardingInputs, feeActionForm, actions, forwarding,
                   err, payload, program, stdout>>

initFeeActionInput ==
    /\ actionInputs' = <<Focus(WithCharLimit(textinputNew, 100)),
                         WithCharLimit(textinputNew, 5)>>
    /\ state' = feeActionInput
    /\ focusIndex' = 0
    /\ typed' = 0
    /\ UNCHANGED <<call, uiModel, list, forwardingInputs, feeActionForm, actions, forwarding,
                   err, payload, program, stdout>>

\* the first validator of processFeeAction that fails, NoError if none does
feeError(recipientAddr, basisPointsStr) ==
    IF recipientAddr = EmptyString THEN "recipient address is required"
    ELSE IF basisPointsStr = EmptyString THEN "basis points is required"
    ELSE IF ~ParseUint32(basisPointsStr).ok THEN "invalid basis points"
    ELSE LET feeAttr == [Recipient |-> recipientAddr,
                         BasisPoints |-> Uint32(ParseUint32(basisPointsStr).val)]
             feeAction == SetAttributes([Id |-> ACTION_FEE, Attributes |-> Nil], feeAttr)
         IN  IF FeeAttributesValidate(feeAttr) # NoError THEN "invalid fee attributes"
             ELSE IF feeAction.err # NoError THEN "failed to set action attributes"
             ELSE IF ActionValidate(feeAction.act) # NoError THEN "invalid fee action"
             ELSE NoError

\* the action processFeeAction builds from a draft that passes
feeActionOf(recipientAddr, basisPointsStr) ==
    [Id |-> ACTION_FEE,
     Attributes |-> [Recipient |-> recipientAddr,
                     BasisPoints |-> Uint32(ParseUint32(basisPointsStr).val)]]

initActionSelection ==
    /\ list' = listNew(ActionItems)
    /\ state' = actionSelection

\* processFeeAction showing a fresh sub-form after a failed submission
processFeeAction_reinit ==
    LET recipientAddr == TrimSpace(actionInputs[1].Value)
        basisPointsStr == TrimSpace(actionInputs[2].Value)
        e == feeError(recipientAddr, basisPointsStr)
    IN  IF e # NoError
        THEN /\ err' = e
             /\ actionInputs' = <<Focus(WithCharLimit(textinputNew, 100)),
                                  WithCharLimit(textinputNew, 5)>>
             /\ UNCHANGED <<call, uiModel, state, list, forwardingInputs, focusIndex,
                            feeActionForm, actions, forwarding, payload, program, stdout,
                            typed>>
        ELSE /\ actions' = Append(actions, feeActionOf(recipientAddr, basisPointsStr))
             /\ initActionSelection
             /\ typed' = 0
             /\ UNCHANGED <<call, uiModel, actionInputs, forwardingInputs, focusIndex,
                            feeActionForm, forwarding, err, payload, program, stdout>>

processFeeAction ==
    LET recipientAddr == TrimSpace(actionInputs[1].Value)
        basisPointsStr == TrimSpace(actionInputs[2].Value)
        e == feeError(recipientAddr, basisPointsStr)
    IN  IF e # NoError
        THEN /\ err' = e
             /\ UNCHANGED <<call, uiModel, state, list, actionInputs, forwardingInputs, focusIndex,
                            feeActionForm, actions, forwarding, payload, program, stdout, typed>>
        ELSE /\ actions' = Append(actions, feeActionOf(recipientAddr, basisPointsStr))
             /\ initActionSelection
             /\ typed' = 0
             /\ UNCHANGED <<call, uiModel, actionInputs, forwardingInputs, focusIndex,
                            feeActionForm, forwarding, err, payload, program, stdout>>

\* updateActionInputs: the Fee sub-form's counterpart of updateForwardingInputs
updateActionInputsNav(key) ==
    LET i == IF key \in {Up, ShiftTab}
             THEN (IF focusIndex > 0 THEN focusIndex - 1 ELSE focusIndex)
             ELSE (IF focusIndex < Len(actionInputs) - 1 THEN focusIndex + 1 ELSE focusIndex)
    IN  /\ focusIndex' = i
        /\ actionInputs' = [k \in 1..Len(actionInputs) |->
                              IF k - 1 = i THEN Focus(actionInputs[k]) ELSE Blur(actionInputs[k])]

updateActionInputsRunes(runes) ==
    actionInputs' = [k \in 1..Len(actionInputs) |-> textinputUpdate(actionInputs[k], runes)]

-----------------------------------------------------------------------------
(* forwarding.go *)

\* initForwardingSelection starting from a fresh action list
initForwardingSelection_fresh ==
    /\ list' = listNew(ForwardingItems)
    /\ state' = forwardingSelection
    /\ actions' = <<>>
    /\ UNCHANGED <<call, uiModel, actionInputs, forwardingInputs, focusIndex, feeActionForm,
                   forwarding, err, payload, program, stdout, typed>>

initForwardingSelection ==
    /\ list' = listNew(ForwardingItems)
    /\ state' = forwardingSelection
    /\ UNCHANGED <<call, uiModel, actionInputs, forwardingInputs, focusIndex, feeActionForm,
                   actions, forwarding, err, payload,
                   program, stdout, typed>>

\* initCCTPForwardingInput starting from a fresh action list
initCCTPForwardingInput_fresh ==
    /\ forwardingInputs' = <<Focus(WithCharLimit(textinputNew, 10)),
                             WithCharLimit(textinputNew, 128),
                             WithCharLimit(textinputNew, 128),
                             WithCharLimit(textinputNew, 256)>>
    /\ state' = cctpForwardingInput
    /\ focusIndex' = 0
    /\ typed' = 0
    /\ actions' = <<>>
    /\ UNCHANGED <<call, uiModel, list, actionInputs, feeActionForm, forwarding,
                   err, payload, program, stdout>>

initCCTPForwardingInput ==
    /\ forwardingInputs' = <<Focus(WithCharLimit(textinputNew, 10)),
                             WithCharLimit(textinputNew, 128),
                             WithCharLimit(textinputNew, 128),
                             WithCharLimit(textinputNew, 256)>>
    /\ state' = cctpForwardingInput
    /\ focusIndex' = 0
    /\ typed' = 0
    /\ UNCHANGED <<call, uiModel, list, actionInputs, feeActionForm, actions, forwarding,
                   err, payload, program, stdout>>

\* the draft of the CCTP sub-form, trimmed as processCCTPForwarding reads it
domainStr == TrimSpace(forwardingInputs[1].Value)

mintRecipientStr == TrimSpace(forwardingInputs[2].Value)

destCallerStr == TrimSpace(forwardingInputs[3].Value)

passthroughStr == TrimSpace(forwardingInputs[4].Value)

\* the input validators of processCCTPForwarding in their order: the error of
\* the first that fails, "silent" for the empty domain (which returns without
\* an error), NoError if the draft passes
cctpError ==
    IF domainStr = EmptyString THEN "silent"
    ELSE IF ~ParseUint32(domainStr).ok THEN "invalid destination domain"
    ELSE IF mintRecipientStr = EmptyString THEN "mint recipient cannot be empty"
    ELSE IF mintRecipientStr # <<"r">> /\ ~decodeHexOrBase64To32Bytes(mintRecipientStr).ok
    THEN "invalid mint recipient"
    ELSE IF destCallerStr # <<"r">> /\ destCallerStr # EmptyString
            /\ ~decodeHexOrBase64To32Bytes(destCallerStr).ok
    THEN "invalid destination caller"
    ELSE NoError

\* processCCTPForwarding taking the passthrough payload before trimming
cctpFields_rawPassthrough(rndMint, rndCaller) ==
    [domain |-> Uint32(ParseUint32(domainStr).val),
     mintRecipient |-> IF mintRecipientStr = <<"r">> THEN rndMint
                       ELSE decodeHexOrBase64To32Bytes(mintRecipientStr).bytes,
     destCaller |-> IF destCallerStr = <<"r">> THEN rndCaller
                    ELSE IF destCallerStr # EmptyString
                    THEN decodeHexOrBase64To32Bytes(destCallerStr).bytes
                    ELSE Nil,
     passthroughPayload |-> IF forwardingInputs[4].Value # EmptyString
                            THEN forwardingInputs[4].Value ELSE Nil]

\* processCCTPForwarding without the padding of a decoded mint recipient
cctpFields_unpadded(rndMint, rndCaller) ==
    [domain |-> Uint32(ParseUint32(domainStr).val),
     mintRecipient |-> IF mintRecipientStr = <<"r">> THEN rndMint
                       ELSE IF HasPrefix0x(mintRecipientStr)
                       THEN HexutilDecode(mintRecipientStr).bytes
                       ELSE Base64Decode(mintRecipientStr).bytes,
     destCaller |-> IF destCallerStr = <<"r">> THEN rndCaller
                    ELSE IF destCallerStr # EmptyString
                    THEN decodeHexOrBase64To32Bytes(destCallerStr).bytes
                    ELSE Nil,
     passthroughPayload |-> IF passthroughStr # EmptyString THEN passthroughStr ELSE Nil]

\* the arguments processCCTPForwarding hands to forwarding.NewCCTPForwarding
\* for a draft that passes; rndMint and rndCaller are what
\* testutil.RandomBytes returns if it is called
cctpFields(rndMint, rndCaller) ==
    [domain |-> Uint32(ParseUint32(domainStr).val),
     mintRecipient |-> IF mintRecipientStr = <<"r">> THEN rndMint
                       ELSE decodeHexOrBase64To32Bytes(mintRecipientStr).bytes,
     destCaller |-> IF destCallerStr = <<"r">> THEN rndCaller
                    ELSE IF destCallerStr # EmptyString
                    THEN decodeHexOrBase64To32Bytes(destCallerStr).bytes
                    ELSE Nil,
     passthroughPayload |-> IF passthroughStr # EmptyString THEN passthroughStr ELSE Nil]

\* accepted is the verdict of forwarding.NewCCTPForwarding
processCCTPForwarding(rndMint, rndCaller, accepted) ==
    LET e == cctpError
        args == cctpFields(rndMint, rndCaller)
        cctpForwarding == NewCCTPForwarding(args.domain, args.mintRecipient, args.destCaller,
                                            args.passthroughPayload, accepted)
        built == buildFinalPayload(cctpForwarding.fwd, actions)
    IN  IF e = "silent" THEN UNCHANGED vars
        ELSE IF e # NoError
        THEN /\ err' = e
             /\ UNCHANGED <<call, uiModel, state, list, actionInputs, forwardingInputs, focusIndex,
                            feeActionForm, actions, forwarding, payload, program, stdout,
                            typed>>
        ELSE IF cctpForwarding.err # NoError
        THEN /\ err' = "failed to create CCTP forwarding"
             /\ UNCHANGED <<call, uiModel, state, list, actionInputs, forwardingInputs, focusIndex,
                            feeActionForm, actions, forwarding, payload, program, stdout,
                            typed>>
        ELSE /\ forwarding' = cctpForwarding.fwd
             /\ payload' = built.payload
             /\ IF built.err # NoError
                THEN err' = "failed to build finalPayload" /\ program' = program
                ELSE err' = err /\ program' = "quit"
             /\ UNCHANGED <<call, uiModel, state, list, actionInputs, forwardingInputs, focusIndex,
                            feeActionForm, actions, stdout, typed>>

\* updateForwardingInputs with the focus wrapping around at both ends
updateForwardingInputsNav_wrap(key) ==
    LET n == Len(forwardingInputs)
        i == IF key \in {Up, ShiftTab}
             THEN (focusIndex + n - 1) % n
             ELSE (focusIndex + 1) % n
    IN  /\ focusIndex' = i
        /\ forwardingInputs' = [k \in 1..n |->
                                  IF k - 1 = i THEN Focus(forwardingInputs[k])
                                  ELSE Blur(forwardingInputs[k])]

updateForwardingInputsNav(key) ==
    LET i == IF key \in {Up, ShiftTab}
             THEN (IF focusIndex > 0 THEN focusIndex - 1 ELSE focusIndex)
             ELSE (IF focusIndex < Len(forwardingInputs) - 1 THEN focusIndex + 1 ELSE focusIndex)
    IN  /\ focusIndex' = i
        /\ forwardingInputs' = [k \in 1..Len(forwardingInputs) |->
                                  IF k - 1 = i THEN Focus(forwardingInputs[k])
                                  ELSE Blur(forwardingInputs[k])]

updateForwardingInputsRunes(runes) ==
    forwardingInputs' = [k \in 1..Len(forwardingInputs) |->
                           textinputUpdate(forwardingInputs[k], runes)]

-----------------------------------------------------------------------------
(* ui_model.go and part_001: handleEnter and Update *)

\* a panic in Update ends the program; main prints no payload
panic ==
    /\ program' = "panic"
    /\ UNCHANGED <<call, uiModel, state, list, actionInputs, forwardingInputs, focusIndex,
                   feeActionForm, actions, forwarding, err, payload, stdout, typed>>

\* return m, tea.Quit
Quit ==
    /\ program' = "quit"
    /\ UNCHANGED <<call, uiModel, state, list, actionInputs, forwardingInputs, focusIndex,
                   feeActionForm, actions, forwarding, err, payload, stdout, typed>>

\* handleEnter with the Swap entry opening the Fee sub-form
handleEnter_swapAsFee ==
    CASE state = actionSelection ->
            IF SelectedItem(list) \in {ACTION_FEE, ACTION_SWAP}
            THEN Len(actions) < MaxActions /\ initFeeActionInput
            ELSE initForwardingSelection
      [] state = feeActionInput -> processFeeAction
      [] state = forwardingSelection ->
            IF SelectedItem(list) = PROTOCOL_CCTP THEN initCCTPForwardingInput
            ELSE panic
      [] state = cctpForwardingInput ->
            \E rndMint \in (IF mintRecipientStr = <<"r">> THEN RandomBytes32 ELSE {Nil}),
               rndCaller \in (IF destCallerStr = <<"r">> THEN RandomBytes32 ELSE {Nil}),
               accepted \in (IF cctpError = NoError THEN BOOLEAN ELSE {FALSE}) :
                processCCTPForwarding(rndMint, rndCaller, accepted)

\* handleEnter returning to the action list from an unsupported protocol
handleEnter_backOnUnsupported ==
    CASE state = actionSelection ->
            IF SelectedItem(list) = ACTION_FEE
            THEN Len(actions) < MaxActions /\ initFeeActionInput
            ELSE IF SelectedItem(list) = ACTION_SWAP THEN panic
            ELSE initForwardingSelection
      [] state = feeActionInput -> processFeeAction
      [] state = forwardingSelection ->
            IF SelectedItem(list) = PROTOCOL_CCTP THEN initCCTPForwardingInput
            ELSE /\ initActionSelection
                 /\ UNCHANGED <<call, uiModel, actionInputs, forwardingInputs, focusIndex,
                                feeActionForm, actions, forwarding, err, payload, program,
                                stdout, typed>>
      [] state = cctpForwardingInput ->
            \E rndMint \in (IF mintRecipientStr = <<"r">> THEN RandomBytes32 ELSE {Nil}),
               rndCaller \in (IF destCallerStr = <<"r">> THEN RandomBytes32 ELSE {Nil}),
               accepted \in (IF cctpError = NoError THEN BOOLEAN ELSE {FALSE}) :
                processCCTPForwarding(rndMint, rndCaller, accepted)

handleEnter ==
    CASE state = actionSelection ->
            IF SelectedItem(list) = ACTION_FEE
            THEN Len(actions) < MaxActions /\ initFeeActionInput
            ELSE IF SelectedItem(list) = ACTION_SWAP THEN panic
            ELSE initForwardingSelection
      [] state = feeActionInput -> processFeeAction
      [] state = forwardingSelection ->
            IF SelectedItem(list) = PROTOCOL_CCTP THEN initCCTPForwardingInput
            ELSE panic
      [] state = cctpForwardingInput ->
            \E rndMint \in (IF mintRecipientStr = <<"r">> THEN RandomBytes32 ELSE {Nil}),
               rndCaller \in (IF destCallerStr = <<"r">> THEN RandomBytes32 ELSE {Nil}),
               accepted \in (IF cctpError = NoError THEN BOOLEAN ELSE {FALSE}) :
                processCCTPForwarding(rndMint, rndCaller, accepted)

\* part_001, Update while state is feeActionInput: f is the form after it
\* has handled the message
updateFeeForm(f) ==
    IF f.State = StateCompleted
    THEN /\ state' = actionSelection
         /\ actions' = Append(actions,
                              [Id |-> ACTION_FEE,
                               Attributes |-> [Recipient |-> GetString(f, 0),
                                               BasisPoints |-> Uint32(GetInt(f, 1))]])
         /\ feeActionForm' = initFeeActionForm
         /\ typed' = 0
         /\ UNCHANGED <<call, uiModel, list, actionInputs, forwardingInputs, focusIndex, forwarding,
                        err, payload, program, stdout>>
    ELSE IF f.State = StateAborted
    THEN /\ state' = actionSelection
         /\ feeActionForm' = initFeeActionForm
         /\ typed' = 0
         /\ UNCHANGED <<call, uiModel, list, actionInputs, forwardingInputs, focusIndex, actions,
                        forwarding, err, payload, program,
                        stdout>>
    ELSE /\ feeActionForm' = f
         /\ UNCHANGED <<call, uiModel, state, list, actionInputs, forwardingInputs, focusIndex,
                        actions, forwarding, err, payload,
                        program, stdout, typed>>

\* the form takes every message while part_001 shows the Fee sub-form
formActive == uiModel = "part_001" /\ state = feeActionInput

\* Update on a rune message
KeyRunesMsg ==
    /\ program = "running"
    /\ \E runes \in Runes :
        IF formActive
        THEN /\ typed < MaxTyped
             /\ feeActionForm' = formRunes(feeActionForm, runes)
             /\ typed' = typed + 1
             /\ UNCHANGED <<call, uiModel, state, list, actionInputs, forwardingInputs, focusIndex,
                            actions, forwarding, err, payload,
                            program, stdout>>
        ELSE IF runes = <<"q">> THEN Quit
        ELSE CASE state \in {actionSelection, forwardingSelection} -> UNCHANGED vars
               [] state = feeActionInput ->
                    /\ typed < MaxTyped
                    /\ updateActionInputsRunes(runes)
                    /\ typed' = typed + 1
                    /\ UNCHANGED <<call, uiModel, state, list, forwardingInputs, focusIndex,
                                   feeActionForm, actions, forwarding, err, payload, program, stdout>>
               [] state = cctpForwardingInput ->
                    /\ typed < MaxTyped
                    /\ updateForwardingInputsRunes(runes)
                    /\ typed' = typed + 1
                    /\ UNCHANGED <<call, uiModel, state, list, actionInputs, focusIndex,
                                   feeActionForm, actions, forwarding, err, payload, program, stdout>>

\* Update on enter
KeyEnterMsg ==
    /\ program = "running"
    /\ IF formActive THEN updateFeeForm(formNext(feeActionForm)) ELSE handleEnter

\* Update on ctrl+c
KeyCtrlCMsg ==
    /\ program = "running"
    /\ IF formActive THEN updateFeeForm(formQuit(feeActionForm)) ELSE Quit

\* Update on tab, shift+tab, up or down
KeyNavMsg ==
    /\ program = "running"
    /\ \E key \in NavKeys :
        IF formActive
        THEN updateFeeForm(IF key = Tab THEN formNext(feeActionForm)
                           ELSE IF key = ShiftTab THEN formPrev(feeActionForm)
                           ELSE feeActionForm)
        ELSE CASE state \in {actionSelection, forwardingSelection} ->
                    /\ list' = listUpdate(list, key)
                    /\ UNCHANGED <<call, uiModel, state, actionInputs, forwardingInputs, focusIndex,
                                   feeActionForm, actions, forwarding, err, payload, program, stdout, typed>>
               [] state = feeActionInput ->
                    /\ updateActionInputsNav(key)
                    /\ UNCHANGED <<call, uiModel, state, list, forwardingInputs, feeActionForm,
                                   actions, forwarding, err, payload, program, stdout, typed>>
               [] state = cctpForwardingInput ->
                    /\ updateForwardingInputsNav(key)
                    /\ UNCHANGED <<call, uiModel, state, list, actionInputs, feeActionForm,
                                   actions, forwarding, err, payload, program, stdout, typed>>

\* Update on a tea.WindowSizeMsg: the form takes it in part_001's Fee
\* sub-form; otherwise the size is stored and the list resized, which is
\* layout only and no part of this model's state
WindowSizeMsg ==
    /\ program = "running"
    /\ UNCHANGED vars

\* main after p.Run returns a model: the payload is printed and the process
\* exits, which is the end of the model and of everything it holds
main ==
    /\ program = "quit"
    /\ stdout' = <<payload>>
    /\ program' = "exited"
    /\ state' = actionSelection
    /\ list' = listNew(ActionItems)
    /\ actions' = <<>>
    /\ actionInputs' = <<>>
    /\ forwardingInputs' = <<>>
    /\ forwarding' = Nil
    /\ err' = NoError
    /\ payload' = EmptyString
    /\ feeActionForm' = initFeeActionForm
    /\ focusIndex' = 0
    /\ typed' = 0
    /\ UNCHANGED <<call, uiModel>>

Next ==
    \/ KeyRunesMsg
    \/ KeyEnterMsg
    \/ KeyCtrlCMsg
    \/ KeyNavMsg
    \/ WindowSizeMsg
    \/ main

Spec == Init /\ [][Next]_vars

-----------------------------------------------------------------------------
(* Submissions: the wizard on a sub-form that holds any draft of a bounded
   family, as typing, pasting and deleting can leave it, and the user
   confirms or quits *)

RecipientTexts ==
    { <<>>, <<" ">>, <<"a", "d", "d", "r", "1">>,
      <<" ", "a", "d", "d", "r", "1", " ">>, <<"7">> }

BPSTexts ==
    { <<>>, <<"7">>, <<" ", "7", " ">>, <<"0">>, <<"1", "0", "0", "0", "0">>,
      <<"1", "0", "0", "0", "1">>, <<"-", "5">>,
      <<"4", "2", "9", "4", "9", "6", "7", "2", "9", "6">>, <<"r">> }

DomainTexts ==
    { <<>>, <<" ">>, <<"7">>, <<" ", "7", " ">>, <<"r">>, <<"-", "1">>,
      <<"4", "2", "9", "4", "9", "6", "7", "2", "9", "6">> }

MintTexts ==
    { <<>>, <<"r">>, <<" ", "0", "x", "0", "1">>, <<"A", "Q", "=", "=", " ">>,
      <<"0", "x", "1">>, <<"0", "x", "A", "=">>,
      HexOf(Repeat(255, 32)), HexOf(Repeat(1, 33)) }

CallerTexts == { <<>>, <<" ">>, <<"r">>, <<"0", "x", "0", "1">>, <<"z", "z">> }

PassthroughTexts == { <<>>, <<" ">>, <<" ", "7", " ">> }

\* the text inputs of a sub-form holding texts, the input at focus focused;
\* an input holds no more than its CharLimit
draftInputs(limits, texts, focus) ==
    [k \in 1..Len(texts) |->
        [Value |-> Take(texts[k], limits[k]), Focus |-> (k - 1 = focus),
         CharLimit |-> limits[k]]]

\* the action lists a build has collected before the sub-form on screen
PriorActions(ui) ==
    IF ui = "ui_model.go"
    THEN { <<>>, <<feeActionOf(<<"a", "d", "d", "r", "1">>, <<"7">>)>> }
    ELSE { <<>>, <<[Id |-> ACTION_FEE,
                    Attributes |-> [Recipient |-> <<"a", "d", "d", "r", "1">>,
                                    BasisPoints |-> Uint32(0)]]>> }

\* ui_model.go on the Fee sub-form
FeeDraft ==
    \E r \in RecipientTexts, b \in BPSTexts, f \in 0..1,
       acts \in PriorActions("ui_model.go") :
        /\ uiModel = "ui_model.go"
        /\ state = feeActionInput
        /\ list = listNew(ActionItems)
        /\ actionInputs = draftInputs(<<100, 5>>, <<r, b>>, f)
        /\ focusIndex = f
        /\ forwardingInputs = <<>>
        /\ feeActionForm = initFeeActionForm
        /\ actions = acts
        /\ err = NoError

\* part_001 on the Fee form: the form leaves an input only when its value is
\* valid
FeeFormDraft ==
    \E f \in 0..1, acts \in PriorActions("part_001") :
      \E r \in (IF f = 0 THEN RecipientTexts ELSE Bech32Addresses),
         b \in (IF f = 1 THEN BPSTexts ELSE {<<>>, <<"7">>}) :
        /\ uiModel = "part_001"
        /\ state = feeActionInput
        /\ list = listNew(ActionItems)
        /\ actionInputs = <<Focus(WithCharLimit(textinputNew, 100)),
                            WithCharLimit(textinputNew, 5)>>
        /\ focusIndex = 0
        /\ forwardingInputs = <<>>
        /\ feeActionForm = [initFeeActionForm EXCEPT !.focus = f, !.values = <<r, b>>]
        /\ actions = acts
        /\ err = NoError

\* either build on the CCTP sub-form, possibly with the error of an earlier
\* submission still set
CCTPDraft ==
    \E ui \in {"ui_model.go", "part_001"} :
      \E d \in DomainTexts, mr \in MintTexts, dc \in CallerTexts,
         pp \in PassthroughTexts, f \in {0, 3}, acts \in PriorActions(ui),
         e \in {NoError, "invalid mint recipient"} :
        /\ uiModel = ui
        /\ state = cctpForwardingInput
        /\ list = listNew(ForwardingItems)
        /\ actionInputs =
              IF acts = <<>> THEN <<>>
              ELSE IF ui = "ui_model.go"
              THEN draftInputs(<<100, 5>>, <<<<"a", "d", "d", "r", "1">>, <<"7">>>>, 1)
              ELSE <<Focus(WithCharLimit(textinputNew, 100)), WithCharLimit(textinputNew, 5)>>
        /\ focusIndex = f
        /\ forwardingInputs = draftInputs(<<10, 128, 128, 256>>, <<d, mr, dc, pp>>, f)
        /\ feeActionForm = initFeeActionForm
        /\ actions = acts
        /\ err = e

InitDrafts ==
    /\ FeeDraft \/ FeeFormDraft \/ CCTPDraft
    /\ forwarding = Nil
    /\ payload = EmptyString
    /\ program = "running"
    /\ stdout = <<>>
    /\ typed = 0
    /\ call = NoCall

NextDrafts ==
    \/ KeyEnterMsg
    \/ KeyCtrlCMsg
    \/ main

SpecDrafts == InitDrafts /\ [][NextDrafts]_vars

-----------------------------------------------------------------------------
(* The validators and the byte codec run on their own, for every argument of
   a bounded family: one function is run per behaviour, call holds its name,
   its argument and its result, and of holds the bytes that an encoded
   argument stands for *)

\* basis points are tried from BPSMargin below zero to BPSMargin above the
\* normalizer
BPSMargin == 2

\* the longest run of fill bytes in an argument of the codec
MaxBytes == 33

BPSInputs == (0 - BPSMargin)..(BPSNormalizer + BPSMargin)

\* how a byte sequence of the family starts: the last two heads are bytes
\* whose base64 text starts with the characters 0 and x
Heads == { <<>>, <<1>>, <<211, 16>>, <<211, 16, 1>> }

Fill == {0, 171, 255}

ByteSeqs == { h \o Repeat(b, n) : h \in Heads, b \in Fill, n \in 0..MaxBytes }

\* texts that are no encoding of bytes, or a malformed one
OtherTexts ==
    { <<"r">>, <<"0", "x", "1">>, <<"0", "x", "z", "z">>, <<"0", "X", "0", "1">>,
      <<"A">>, <<"A", "Q", "=">>, <<"=", "=", "=", "=">>,
      <<"A", "Q", "=", "=", "A", "Q", "=", "=">>, <<"A", "Q", " ", " ">> }

\* the variables of the wizard
wizard == <<uiModel, state, list, actionInputs, forwardingInputs, focusIndex,
            feeActionForm, actions, forwarding, err, payload, program, stdout, typed>>

callValidateBPS ==
    /\ call = NoCall
    /\ \E bps \in BPSInputs :
          call' = [fn |-> "validateBPS", arg |-> bps, res |-> validateBPS(bps), of |-> Nil]
    /\ UNCHANGED wizard

callLeftPadIfRequired ==
    /\ call = NoCall
    /\ \E input \in ByteSeqs :
          call' = [fn |-> "leftPadIfRequired", arg |-> input,
                   res |-> leftPadIfRequired(input), of |-> Nil]
    /\ UNCHANGED wizard

callDecodeHex ==
    /\ call = NoCall
    /\ \E x \in ByteSeqs :
          call' = [fn |-> "decodeHexOrBase64To32Bytes", arg |-> HexOf(x),
                   res |-> decodeHexOrBase64To32Bytes(HexOf(x)), of |-> Ptr(x)]
    /\ UNCHANGED wizard

callDecodeBase64 ==
    /\ call = NoCall
    /\ \E x \in ByteSeqs :
          call' = [fn |-> "decodeHexOrBase64To32Bytes", arg |-> Base64Of(x),
                   res |-> decodeHexOrBase64To32Bytes(Base64Of(x)), of |-> Ptr(x)]
    /\ UNCHANGED wizard

callDecodeText ==
    /\ call = NoCall
    /\ \E input \in OtherTexts :
          call' = [fn |-> "decodeHexOrBase64To32Bytes", arg |-> input,
                   res |-> decodeHexOrBase64To32Bytes(input), of |-> Nil]
    /\ UNCHANGED wizard

NextFunctions ==
    \/ callValidateBPS
    \/ callLeftPadIfRequired
    \/ callDecodeHex
    \/ callDecodeBase64
    \/ callDecodeText

SpecFunctions == Init /\ [][NextFunctions]_vars

-----------------------------------------------------------------------------
(* Claims *)

inputScreens == {feeActionInput, cctpForwardingInput}

\* the draft on screen does not pass the validators of its sub-form
FailsValidation ==
    \/ /\ formActive
       /\ feeFormValidate(feeActionForm.focus,
                          feeActionForm.values[feeActionForm.focus + 1]) # NoError
    \/ /\ ~formActive
       /\ state = feeActionInput
       /\ feeError(TrimSpace(actionInputs[1].Value), TrimSpace(actionInputs[2].Value)) # NoError
    \/ /\ state = cctpForwardingInput
       /\ cctpError # NoError

\* the forwarding that the draft on screen stands for
ForwardingOfDraft(fwd) ==
    /\ fwd.ProtocolId = PROTOCOL_CCTP
    /\ fwd.DestinationDomain = ParseUint32(domainStr).val
    /\ IF mintRecipientStr = <<"r">> THEN fwd.MintRecipient \in RandomBytes32
       ELSE fwd.MintRecipient = decodeHexOrBase64To32Bytes(mintRecipientStr).bytes
    /\ IF destCallerStr = <<"r">> THEN fwd.DestinationCaller \in RandomBytes32
       ELSE IF destCallerStr = EmptyString THEN fwd.DestinationCaller = Nil
       ELSE fwd.DestinationCaller = decodeHexOrBase64To32Bytes(destCallerStr).bytes
    /\ fwd.PassthroughPayload = passthroughStr

(* C1: the Forwarding is written at most once: only a confirm on the CCTP
   sub-form writes it, it was unset before, and right after the write the
   program has quit. *)
C1_ForwardingWrittenOnce ==
    [][(program = "running" /\ forwarding' # forwarding)
          => /\ forwarding = Nil
             /\ state = cctpForwardingInput
             /\ program' = "quit"]_vars

(* C2: a payload exists only in a session that a CCTP submission has ended;
   there the one Forwarding is the one the submitted draft stands for (domain,
   mint recipient, destination caller, passthrough payload) and the payload
   is the encoding of the action list, as collected and in order, with that
   Forwarding. *)
C2_PayloadIsAssembled ==
    payload # EmptyString =>
        /\ program = "quit"
        /\ state = cctpForwardingInput
        /\ cctpError = NoError
        /\ Len(forwarding) = 1
        /\ ForwardingOfDraft(forwarding[1])
        /\ payload = <<[PreActions |-> actions, Forwarding |-> forwarding[1]]>>

\* an action-free session has ended with a payload
C2_Witness == program = "quit" /\ payload # EmptyString /\ actions = <<>>

(* C3: the action list only grows at its end: in every step of a session the
   list before the step is a prefix of the list after it. *)
C3_ActionsAppendOnly == [][program' # "exited" => IsPrefix(actions, actions')]_vars

\* a second action has been appended behind the first
C3_Witness == program = "running" /\ Len(actions) = 2

(* C4: a message handled while the screen is ForwardingSelection or CCTPInput
   leaves the action list as it is. *)
C4_ForwardingScreensKeepActions ==
    [][(program = "running" /\ state \in {forwardingSelection, cctpForwardingInput})
          => actions' = actions]_vars

\* a submission has been handled on the CCTP screen of a session with actions
C4_Witness ==
    /\ program = "running"
    /\ state = cctpForwardingInput
    /\ actions # <<>>
    /\ err = "mint recipient cannot be empty"

(* C5: on every screen ctrl+c ends the session at once: the program quits, no
   payload has been produced, the action list and the Forwarding are not
   changed. *)
C5_CtrlCQuitsEverywhere ==
    [][KeyCtrlCMsg => /\ program' = "quit"
                      /\ payload' = EmptyString
                      /\ actions' = actions
                      /\ forwarding' = forwarding]_vars

(* C6: a confirm on a sub-form whose draft fails validation keeps the screen,
   the draft, the action list, the Forwarding and the payload, and the
   session goes on; at most the error changes. *)
C6_FailedSubmissionRecoverable ==
    [][(KeyEnterMsg /\ FailsValidation)
          => /\ state' = state
             /\ program' = "running"
             /\ actionInputs' = actionInputs
             /\ forwardingInputs' = forwardingInputs
             /\ feeActionForm'.values = feeActionForm.values
             /\ actions' = actions
             /\ forwarding' = forwarding
             /\ payload' = payload]_vars

\* a Fee submission has failed and its typed recipient is still on screen
C6_Witness ==
    /\ program = "running"
    /\ uiModel = "ui_model.go"
    /\ state = feeActionInput
    /\ err = "basis points is required"
    /\ actionInputs[1].Value # EmptyString

\* a confirm that leaves the session on its input screen and shows no error
SilentFailure ==
    /\ state' = state
    /\ program' = "running"
    /\ IF formActive
       THEN /\ feeActionForm'.focus = feeActionForm.focus
            /\ feeActionForm'.errs[feeActionForm.focus + 1] = NoError
       ELSE err' = NoError

(* C7: no failure is silent: on an input screen no confirm is possible that
   leaves the session running on that screen without an error set. *)
C7_NoSilentFailure ==
    (program = "running" /\ state \in inputScreens) => ~ENABLED (KeyEnterMsg /\ SilentFailure)

(* C8: a failed payload assembly ends the session: no running session holds a
   Forwarding. *)
C8_AssemblyFailureTerminates == program = "running" => forwarding = Nil

(* C9: an error never outlives its screen: whenever an error is set, the
   session is on an input screen. *)
C9_ErrorOnlyOnItsScreen ==
    (program = "running" /\ err # NoError) => state \in inputScreens

\* the list entry under the cursor has no sub-form
UnimplementedSelected ==
    \/ state = actionSelection /\ SelectedItem(list) = ACTION_SWAP
    \/ state = forwardingSelection /\ SelectedItem(list) \in {PROTOCOL_IBC, PROTOCOL_HYPERLANE}

(* C10: confirming Swap, IBC or Hyperlane aborts the session: the program
   panics with the action list, the Forwarding and the payload as they were
   and nothing printed, and no step follows a panic. *)
C10_UnimplementedAborts ==
    [][/\ program # "panic"
       /\ (KeyEnterMsg /\ UnimplementedSelected)
             => /\ program' = "panic"
                /\ actions' = actions
                /\ forwarding' = forwarding
                /\ payload' = payload
                /\ stdout' = <<>>]_vars

\* the session of one action has been aborted on the protocol list
C10_Witness ==
    /\ program = "panic"
    /\ state = forwardingSelection
    /\ Len(actions) = 1
    /\ stdout = <<>>

\* the draft of the Fee sub-form as the build on screen submits it
feeRecipient ==
    IF formActive THEN feeActionForm.values[1] ELSE TrimSpace(actionInputs[1].Value)

feeBasisPoints ==
    IF formActive THEN feeActionForm.values[2] ELSE TrimSpace(actionInputs[2].Value)

\* a confirm now submits the Fee sub-form and every validator of the build
\* accepts the draft; the form submits from its last input
FeeSubmissionPasses ==
    /\ state = feeActionInput
    /\ IF formActive
       THEN /\ feeActionForm.focus = 1
            /\ feeFormValidate(0, feeRecipient) = NoError
            /\ feeFormValidate(1, feeBasisPoints) = NoError
       ELSE feeError(feeRecipient, feeBasisPoints) = NoError

(* C11: a confirm that submits a Fee draft which passes the validators
   appends exactly one Fee action holding the submitted recipient and the
   submitted basis points behind the list as it was, and shows
   ActionSelection; a confirm on a Fee draft that fails validation leaves the
   list and the screen as they are. *)
C11_FeeSubmissionAppends ==
    [][(KeyEnterMsg /\ state = feeActionInput)
          => /\ FeeSubmissionPasses
                  => /\ actions' = Append(actions,
                                          [Id |-> ACTION_FEE,
                                           Attributes |->
                                               [Recipient |-> feeRecipient,
                                                BasisPoints |-> Atoi(feeBasisPoints).val]])
                     /\ state' = actionSelection
             /\ FailsValidation => (actions' = actions /\ state' = state)]_vars

(* C12: in every state every action of the list is a Fee action with a
   non-empty recipient and basis points above 0 and at most 10000. *)
C12_ActionsWellFormed ==
    \A i \in 1..Len(actions) :
        /\ actions[i].Id = ACTION_FEE
        /\ actions[i].Attributes.Recipient # EmptyString
        /\ 0 < actions[i].Attributes.BasisPoints
        /\ actions[i].Attributes.BasisPoints <= BPSNormalizer

(* C13: validateBPS accepts every b with 0 < b <= 10000, rejects 0 with the
   zero error and rejects every b above 10000 with the too-large error, which
   is another error than the zero error. *)
C13_ValidateBPS ==
    call.fn = "validateBPS" =>
        /\ (0 < call.arg /\ call.arg <= 10000) => call.res = NoError
        /\ call.arg = 0 => call.res = "fee basis point cannot be zero"
        /\ call.arg > 10000 => call.res = "fee basis point cannot be higher than 10000"
        /\ call.arg > 10000 => call.res # "fee basis point cannot be zero"

\* the largest valid basis points have been validated
C13_Witness == call.fn = "validateBPS" /\ call.arg = 10000 /\ call.res = NoError

(* C14: for an input of at most 32 bytes leftPadIfRequired returns exactly 32
   bytes, the last len(input) of them the input and all before them zero;
   for a longer input it returns the too-long error and no bytes. *)
C14_LeftPad ==
    call.fn = "leftPadIfRequired" =>
        LET x == call.arg
            r == call.res
        IN  IF Len(x) <= 32
            THEN /\ r.ok
                 /\ r.err = NoError
                 /\ Len(r.bytes) = 32
                 /\ \A i \in 1..32 :
                        r.bytes[i] = IF i <= 32 - Len(x) THEN 0 ELSE x[i - (32 - Len(x))]
            ELSE /\ ~r.ok
                 /\ r.err = "input is too long; max 32 bytes"
                 /\ r.bytes = Nil

\* three bytes, none of them zero, have been padded
C14_Witness ==
    /\ call.fn = "leftPadIfRequired"
    /\ call.arg = <<211, 16, 1>>
    /\ call.res.ok

\* the call decoded a text that stands for at most 32 bytes
DecodedEncoding ==
    /\ call.fn = "decodeHexOrBase64To32Bytes"
    /\ call.of # Nil
    /\ Len(call.of[1]) <= 32

(* C15: for every byte sequence x of at most 32 bytes the decoder takes both
   the text 0x+hex(x) and the standard base64 text of x to the same 32 bytes,
   x padded with zeros on the left. *)
C15_EncodingsDecodeAlike ==
    DecodedEncoding =>
        /\ call.res.ok
        /\ call.res.bytes = Zeros(32 - Len(call.of[1])) \o call.of[1]

\* the input is a text that hexutil.Decode or base64.StdEncoding accepts, and
\* it stands for at most 32 bytes
ValidEncoding(input) ==
    \/ HexutilDecode(input).ok /\ Len(HexutilDecode(input).bytes) <= 32
    \/ Base64Decode(input).ok /\ Len(Base64Decode(input).bytes) <= 32

(* C16: the decoder succeeds on every input that is valid 0x-hex or valid
   base64 of at most 32 bytes: it reports an invalid encoding only for an
   input that is neither. *)
C16_ValidEncodingDecodes ==
    (call.fn = "decodeHexOrBase64To32Bytes" /\ ValidEncoding(call.arg)) => call.res.ok

(* C17: every Forwarding the wizard has built holds a mint recipient of
   exactly 32 bytes and a destination caller that is absent or exactly 32
   bytes; the destination caller is absent exactly when its field is empty
   after trimming, and so is the passthrough payload. *)
C17_ForwardingFields ==
    forwarding # Nil =>
        LET fwd == forwarding[1] IN
        /\ Len(fwd.MintRecipient) = 32
        /\ fwd.DestinationCaller = Nil \/ Len(fwd.DestinationCaller) = 32
        /\ fwd.DestinationCaller = Nil <=> destCallerStr = EmptyString
        /\ fwd.PassthroughPayload = Nil <=> passthroughStr = EmptyString

\* a Forwarding has been built from a base64 mint recipient, a hex
\* destination caller and a passthrough payload
C17_Witness ==
    /\ forwarding # Nil
    /\ mintRecipientStr = <<"A", "Q", "=", "=">>
    /\ forwarding[1].DestinationCaller = Zeros(31) \o <<1>>
    /\ forwarding[1].PassthroughPayload = <<"7">>

\* the checks of a CCTP submission in the order of the specification: the
\* number of the first that fails on the draft on screen, 0 if none does
cctpFirstFailing ==
    IF domainStr = EmptyString THEN 1
    ELSE IF ~ParseUint32(domainStr).ok THEN 2
    ELSE IF mintRecipientStr = EmptyString THEN 3
    ELSE IF mintRecipientStr # <<"r">> /\ ~decodeHexOrBase64To32Bytes(mintRecipientStr).ok
    THEN 4
    ELSE IF /\ destCallerStr # EmptyString
            /\ destCallerStr # <<"r">>
            /\ ~decodeHexOrBase64To32Bytes(destCallerStr).ok
    THEN 5
    ELSE 0

\* the error that reports each check; the check of an empty domain has no
\* error of its own in the code
cctpErrorOfCheck ==
    << "destination domain cannot be empty",
       "invalid destination domain",
       "mint recipient cannot be empty",
       "invalid mint recipient",
       "invalid destination caller" >>

\* the outcome of a confirm that reports the first failing check: an error
\* is set, it is not the error of a later check, it is the error of that
\* check where the code has one, and the Forwarding is left as it is
FirstFailingReported ==
    /\ err' # NoError
    /\ \A k \in (cctpFirstFailing + 1)..5 : err' # cctpErrorOfCheck[k]
    /\ cctpFirstFailing > 1 => err' = cctpErrorOfCheck[cctpFirstFailing]
    /\ forwarding' = forwarding

(* C18: on a CCTP draft that fails one or more checks, no confirm is possible
   that does anything but report the first failing check in the order domain
   non-empty, domain parses, mint recipient non-empty, mint recipient decodes,
   destination caller decodes, and leave the Forwarding unset. *)
C18_FirstFailingCheckReported ==
    (program = "running" /\ state = cctpForwardingInput /\ cctpFirstFailing # 0)
        => ~ENABLED (KeyEnterMsg /\ ~FirstFailingReported)

\* the checks of a Fee submission in the order of the specification: the
\* number of the first that fails on the draft on screen, 0 if none does
feeFirstFailing ==
    IF feeRecipient = EmptyString THEN 1
    ELSE IF feeBasisPoints = EmptyString THEN 2
    ELSE IF ~ParseUint32(feeBasisPoints).ok THEN 3
    ELSE IF FeeAttributesValidate([Recipient |-> feeRecipient,
                                   BasisPoints |-> ParseUint32(feeBasisPoints).val]) # NoError
    THEN 4
    ELSE 0

feeErrorOfCheck ==
    << "recipient address is required",
       "basis points is required",
       "invalid basis points",
       "invalid fee attributes" >>

\* a confirm now submits the Fee sub-form; the form submits from its last
\* input
FeeSubmission ==
    state = feeActionInput /\ (formActive => feeActionForm.focus = 1)

(* C19: a Fee submission runs the checks recipient non-empty, basis points
   non-empty, basis points parse as unsigned 32-bit, attribute validation in
   that order and stops at the first that fails: its error is the one
   reported (on the form, an error on the input) and the action list is left
   as it is; an action is appended only if every check passed. *)
C19_FeeChecksInOrder ==
    [][(KeyEnterMsg /\ FeeSubmission)
          => /\ feeFirstFailing # 0
                  => /\ actions' = actions
                     /\ IF formActive THEN feeActionForm'.errs[2] # NoError
                        ELSE err' = feeErrorOfCheck[feeFirstFailing]
             /\ actions' # actions => feeFirstFailing = 0]_vars

\* the screen changes of the specified control flow
ScreenTransitions ==
    { <<actionSelection, feeActionInput>>,
      <<feeActionInput, actionSelection>>,
      <<actionSelection, forwardingSelection>>,
      <<forwardingSelection, cctpForwardingInput>> }

(* C20: the session starts on ActionSelection with an empty action list, no
   Forwarding and an empty payload; the screen changes only from
   ActionSelection to FeeInput, from FeeInput to ActionSelection, from
   ActionSelection to ForwardingSelection and from ForwardingSelection to
   CCTPInput; a payload is produced, and the session is done by it, only on
   CCTPInput; and from ForwardingSelection or CCTPInput the screen never
   becomes ActionSelection or FeeInput again. *)
C20_ControlFlow ==
    /\ state = actionSelection /\ actions = <<>> /\ forwarding = Nil /\ payload = EmptyString
    /\ [][program' # "exited"
            => /\ state' # state => <<state, state'>> \in ScreenTransitions
               /\ payload' # payload => state = cctpForwardingInput
               /\ state \in {forwardingSelection, cctpForwardingInput}
                     => state' \in {forwardingSelection, cctpForwardingInput}]_vars

\* a session has gone through every screen and is done with a payload
C20_Witness ==
    /\ program = "quit"
    /\ state = cctpForwardingInput
    /\ Len(actions) = 1
    /\ payload # EmptyString

-----------------------------------------------------------------------------
(* Input screens: what typing and navigating may change *)

\* what a message other than enter and ctrl+c has to leave alone on an input
\* screen: the screen, the action list, the Forwarding, the payload, and the
\* program keeps running
InputFrame ==
    /\ state' = state
    /\ actions' = actions
    /\ forwarding' = forwarding
    /\ payload' = payload
    /\ program' = "running"

(* C21: on an input screen (Fee input, CCTP input) a rune message (every
   character of the hex and base64 alphabets, the letter q among them), a
   navigation key and a window resize change at most the draft and the
   focus: the screen, the action list, the Forwarding and the payload stay
   as they are and the program keeps running. *)
C21_InputScreenFrame ==
    [][(state \in inputScreens /\ (KeyRunesMsg \/ KeyNavMsg \/ WindowSizeMsg))
         => InputFrame]_vars

\* every input of a sub-form is empty
draftEmpty(inputs) == \A k \in 1..Len(inputs) : inputs[k].Value = EmptyString

\* the form of part_001's Fee sub-form holds no text
formEmpty(f) == f.values = <<EmptyString, EmptyString>>

(* C22: every step that enters the Fee input screen or the CCTP input screen
   from another screen leaves all draft fields of that sub-form empty (the
   two text inputs, and in part_001 the values of the form; the four text
   inputs of the CCTP sub-form), whatever was typed, submitted or aborted
   in an earlier visit. *)
C22_DraftsStartEmpty ==
    [][(state' # state /\ state' \in inputScreens /\ program' = "running")
         => IF state' = feeActionInput
            THEN /\ Len(actionInputs') = 2
                 /\ draftEmpty(actionInputs')
                 /\ uiModel = "part_001" => formEmpty(feeActionForm')
            ELSE /\ Len(forwardingInputs') = 4
                 /\ draftEmpty(forwardingInputs')]_vars

\* the Fee sub-form entered again with an empty draft, after an earlier visit
\* whose typed recipient was submitted
C22_Witness ==
    /\ program = "running"
    /\ state = feeActionInput
    /\ Len(actions) = 1
    /\ actions[1].Attributes.Recipient # EmptyString
    /\ draftEmpty(actionInputs)
    /\ formEmpty(feeActionForm)

-----------------------------------------------------------------------------
(* The focus index *)

\* the positions, counted from 0, of the inputs that are focused
focusedFields(inputs) == {k - 1 : k \in {j \in 1..Len(inputs) : inputs[j].Focus}}

\* the inputs of the text-input sub-form of a screen
inputsOf(screen, fee, cctp) == IF screen = feeActionInput THEN fee ELSE cctp

\* the focus index after updateForwardingInputs took that key at index i
indexAfter(key, i) ==
    IF key \in {Up, ShiftTab} THEN (IF i = 0 THEN 0 ELSE i - 1)
    ELSE (IF i = 3 THEN 3 ELSE i + 1)

(* C23: every step that enters the Fee input screen or the CCTP input screen
   sets focusIndex to 0 and leaves exactly the first input focused; in every
   state on the CCTP input screen 0 <= focusIndex <= 3; and on that screen
   no tab, shift+tab, up or down can end otherwise than with exactly the
   input at focusIndex focused, where up and shift+tab move the index one
   down but not below 0 and down and tab move it one up but not above 3:
   at the first and at the last input the index stays, it does not wrap
   around. *)
C23_FocusIndex ==
    /\ [](state = cctpForwardingInput
            => /\ focusIndex \in 0..3
               /\ \A key \in NavKeys :
                    ~ENABLED (/\ KeyNavMsg
                              /\ updateForwardingInputsNav(key)
                              /\ ~(/\ focusedFields(forwardingInputs') = {focusIndex'}
                                   /\ focusIndex' = indexAfter(key, focusIndex))))
    /\ [][(state' # state /\ state' \in inputScreens /\ program' = "running")
            => /\ focusIndex' = 0
               /\ focusedFields(inputsOf(state', actionInputs', forwardingInputs')) = {0}]_vars

\* the last input of the CCTP sub-form is the one focused, which takes three
\* navigation keys from the entry into the screen
C23_Witness ==
    /\ program = "running"
    /\ state = cctpForwardingInput
    /\ focusIndex = 3
    /\ focusedFields(forwardingInputs) = {3}

=============================================================================
